---- MODULE Spec2Model ----
(***************************************************************************)
(* Model of study_space_simulator.py: the interval overlap test, the room  *)
(* state classifier, the environment synthesizer, the timeline builder,    *)
(* the booking fetch and the polling loop that publishes two messages per  *)
(* room per cycle.                                                         *)
(*                                                                         *)
(* Numbers.  The sensor metrics are Python floats.  They are modelled as   *)
(* fixed-point integers counting ten-thousandths: Fx(27, 5000) is 27.5.    *)
(* Clock times are minutes since midnight of DATE: 540 is 09:00.           *)
(***************************************************************************)
EXTENDS Integers, Sequences, FiniteSets, TLC

VARIABLES
    pc,               \* position of the program (or of the function under study)
    call,             \* arguments of the function call under study
    result,           \* value returned by the function call under study
    locals,           \* simulate_values_for_room: occ, noise, temp, light at line 126
    fired,            \* simulate_values_for_room: the random branches that were taken
    T_START,          \* configuration, line 18
    T_END,            \* configuration, line 19
    SLOT_MINUTES,     \* configuration, line 20
    bookings,         \* build_timeline: its argument
    timeline,         \* build_timeline: the list being built
    current,          \* build_timeline: the loop variable
    response,         \* fetch_bookings: what requests.get / r.json() produced
    grouped_bookings, \* main: the dict returned by fetch_bookings
    room_idx,         \* main: index in ROOMS of the room of the for loop
    published         \* the messages handed to client.publish in this cycle

vars == <<pc, call, result, locals, fired, T_START, T_END, SLOT_MINUTES,
          bookings, timeline, current, response, grouped_bookings, room_idx,
          published>>

(***************************************************************************)
(* Configuration (lines 16-26)                                             *)
(***************************************************************************)
ROOMS == <<"24380", "24381", "24382", "24546", "24547">>

MQTT_BASE == "student/CASA0019/Gilang/studyspace"

\* a room id that is not in the catalog
UnknownRoom == "99999"

RoomSet == {ROOMS[i] : i \in 1..Len(ROOMS)}

\* fixed-point literal: units + frac/10000
Fx(units, frac) == units * 10000 + frac

\* hh:mm as minutes since midnight
HM(h, m) == h * 60 + m

\* the values the variables of the other components hold while one component
\* is studied on its own
Idle == <<>>

(***************************************************************************)
(* overlaps (lines 33-34)                                                  *)
(***************************************************************************)
\* faulty variant: both comparisons strict, so intervals that only touch overlap
overlaps_touching(slot_start, slot_end, book_start, book_end) ==
    ~(slot_end < book_start \/ slot_start > book_end)

\* faulty variant: the second comparison strict only
overlaps_lopsided(slot_start, slot_end, book_start, book_end) ==
    ~(slot_end <= book_start \/ slot_start > book_end)

overlaps(slot_start, slot_end, book_start, book_end) ==
    ~(slot_end <= book_start \/ slot_start >= book_end)

(***************************************************************************)
(* classify_room (lines 36-65)                                             *)
(***************************************************************************)
\* faulty variant: the dim rule tested before the two temperature rules
classify_room_dim_first(occ, noise, temp, light) ==
    IF occ >= Fx(90, 0) /\ noise >= Fx(60, 0) THEN "overloaded"
    ELSE IF light < Fx(240, 0) THEN "dim"
    ELSE IF temp > Fx(27, 5000) THEN "warm"
    ELSE IF temp < Fx(18, 5000) THEN "cold"
    ELSE IF noise >= Fx(60, 0) /\ occ < Fx(90, 0) THEN "noisy"
    ELSE IF Fx(70, 0) <= occ /\ occ <= Fx(90, 0) /\ noise < Fx(60, 0) THEN "busy"
    ELSE IF occ < Fx(30, 0) /\ noise < Fx(40, 0)
            /\ Fx(21, 0) <= temp /\ temp <= Fx(24, 0)
            /\ light >= Fx(360, 0) THEN "perfect"
    ELSE IF occ < Fx(50, 0) /\ noise < Fx(45, 0)
            /\ Fx(20, 0) <= temp /\ temp <= Fx(26, 0) THEN "good"
    ELSE IF noise < Fx(44, 0) /\ occ < Fx(60, 0)
            /\ Fx(19, 0) <= temp /\ temp <= Fx(26, 0) THEN "calm"
    ELSE "neutral"

classify_room(occ, noise, temp, light) ==
    IF occ >= Fx(90, 0) /\ noise >= Fx(60, 0) THEN "overloaded"
    ELSE IF temp > Fx(27, 5000) THEN "warm"
    ELSE IF temp < Fx(18, 5000) THEN "cold"
    ELSE IF light < Fx(240, 0) THEN "dim"
    ELSE IF noise >= Fx(60, 0) /\ occ < Fx(90, 0) THEN "noisy"
    ELSE IF Fx(70, 0) <= occ /\ occ <= Fx(90, 0) /\ noise < Fx(60, 0) THEN "busy"
    ELSE IF occ < Fx(30, 0) /\ noise < Fx(40, 0)
            /\ Fx(21, 0) <= temp /\ temp <= Fx(24, 0)
            /\ light >= Fx(360, 0) THEN "perfect"
    ELSE IF occ < Fx(50, 0) /\ noise < Fx(45, 0)
            /\ Fx(20, 0) <= temp /\ temp <= Fx(26, 0) THEN "good"
    ELSE IF noise < Fx(44, 0) /\ occ < Fx(60, 0)
            /\ Fx(19, 0) <= temp /\ temp <= Fx(26, 0) THEN "calm"
    ELSE "neutral"

(***************************************************************************)
(* Specification of one call of overlaps                                   *)
(***************************************************************************)
\* largest timestamp drawn for the arguments of overlaps
MaxStamp == 3

Stamps == 0..MaxStamp

\* the components that are not running hold fixed values
ConfigAsShipped ==
    /\ T_START = HM(9, 0)
    /\ T_END = HM(21, 0)
    /\ SLOT_MINUTES = 30

OverlapsInit ==
    /\ pc = "call"
    /\ call \in [slot_start : Stamps, slot_end : Stamps,
                 book_start : Stamps, book_end : Stamps]
    /\ result = FALSE
    /\ ConfigAsShipped
    /\ locals = Idle /\ fired = {} /\ bookings = Idle /\ timeline = Idle
    /\ current = 0 /\ response = Idle /\ grouped_bookings = Idle
    /\ room_idx = 0 /\ published = Idle

OverlapsCall ==
    /\ pc = "call"
    /\ result' = overlaps(call.slot_start, call.slot_end,
                          call.book_start, call.book_end)
    /\ pc' = "return"
    /\ UNCHANGED <<call, locals, fired, T_START, T_END, SLOT_MINUTES, bookings,
                   timeline, current, response, grouped_bookings, room_idx,
                   published>>

OverlapsNext == OverlapsCall

OverlapsSpec == OverlapsInit /\ [][OverlapsNext]_vars

(***************************************************************************)
(* Specification of one call of classify_room                              *)
(***************************************************************************)
\* inputs on both sides of every threshold of the rules, and the clamp limits
OccInputs == {Fx(0, 0), Fx(20, 0), Fx(29, 9900), Fx(30, 0), Fx(49, 9900),
              Fx(50, 0), Fx(59, 9900), Fx(60, 0), Fx(69, 9900), Fx(70, 0),
              Fx(90, 0), Fx(90, 100), Fx(100, 0)}

NoiseInputs == {Fx(30, 0), Fx(39, 9900), Fx(40, 0), Fx(43, 9900), Fx(44, 0),
                Fx(44, 9900), Fx(45, 0), Fx(59, 9900), Fx(60, 0), Fx(85, 0)}

TempInputs == {Fx(17, 0), Fx(18, 4900), Fx(18, 5000), Fx(18, 9900), Fx(19, 0),
               Fx(19, 9900), Fx(20, 0), Fx(20, 9900), Fx(21, 0), Fx(22, 0),
               Fx(24, 0), Fx(24, 100), Fx(26, 0), Fx(26, 100), Fx(27, 5000),
               Fx(27, 5100), Fx(29, 0)}

LightInputs == {Fx(100, 0), Fx(239, 9900), Fx(240, 0), Fx(359, 9900),
                Fx(360, 0), Fx(400, 0), Fx(600, 0)}

ClassifyInit ==
    /\ pc = "call"
    /\ call \in [occ : OccInputs, noise : NoiseInputs,
                 temp : TempInputs, light : LightInputs]
    /\ result = "none"
    /\ ConfigAsShipped
    /\ locals = Idle /\ fired = {} /\ bookings = Idle /\ timeline = Idle
    /\ current = 0 /\ response = Idle /\ grouped_bookings = Idle
    /\ room_idx = 0 /\ published = Idle

ClassifyCall ==
    /\ pc = "call"
    /\ result' = classify_room(call.occ, call.noise, call.temp, call.light)
    /\ pc' = "return"
    /\ UNCHANGED <<call, locals, fired, T_START, T_END, SLOT_MINUTES, bookings,
                   timeline, current, response, grouped_bookings, room_idx,
                   published>>

ClassifyNext == ClassifyCall

ClassifySpec == ClassifyInit /\ [][ClassifyNext]_vars

(***************************************************************************)
(* simulate_values_for_room (lines 70-136)                                 *)
(*                                                                         *)
(* The random draws of one call are the record d.  random.gauss(mu, sigma) *)
(* is mu plus a drawn deviation; a branch guarded by random.random() < p   *)
(* is a sequence, empty when the branch is not taken and holding the value *)
(* drawn inside the branch when it is.                                     *)
(***************************************************************************)
Max(a, b) == IF a >= b THEN a ELSE b

Min(a, b) == IF a <= b THEN a ELSE b

\* dict.get(key, default), lines 90, 109 and 213
DictGet(dict, key, default) == IF key \in DOMAIN dict THEN dict[key] ELSE default

\* lines 75-82
base_occ(hour) ==
    IF 7 <= hour /\ hour <= 10 THEN 35
    ELSE IF 11 <= hour /\ hour <= 16 THEN 70
    ELSE IF 17 <= hour /\ hour <= 21 THEN 55
    ELSE 20

\* lines 84-90
room_occ_bias ==
    "24546" :> 10 @@ "24547" :> 0 @@ "24380" :> (-5) @@ "24381" :> 15
    @@ "24382" :> (-10)

\* line 102
base_temp(hour) ==
    Fx(22, 5000) + (IF 12 <= hour /\ hour <= 17 THEN Fx(0, 7000) ELSE 0)

\* lines 103-109
room_temp_bias ==
    "24546" :> Fx(0, 3000) @@ "24547" :> 0 @@ "24380" :> (-Fx(0, 5000))
    @@ "24381" :> Fx(1, 0) @@ "24382" :> (-Fx(1, 0))

\* faulty variant: the lower limit of the clamp is lost
clamp_no_floor(lo, hi, x) == Min(hi, x)

\* max(lo, min(hi, x)), lines 95, 100, 116 and 124
clamp(lo, hi, x) == Max(lo, Min(hi, x))

Taken(branch) == Len(branch) = 1

\* the value a taken branch adds, 0 when the branch is skipped
Added(branch) == IF Taken(branch) THEN branch[1] ELSE 0

\* lines 92-95
sim_occ(room, hour, d) ==
    LET mean == Fx(base_occ(hour) + DictGet(room_occ_bias, room, 0), 0)
        drawn == mean + d.occ_dev
        surged == drawn + Fx(Added(d.surge), 0)
    IN  clamp(Fx(0, 0), Fx(100, 0), surged)

\* lines 97-100; occ * 0.45 is exact in ten-thousandths when occ is a
\* multiple of 0.002
sim_noise(occ, d) ==
    LET drawn == Fx(28, 0) + (occ * 45) \div 100 + d.noise_dev
        spiked == drawn + Fx(Added(d.spike), 0)
    IN  clamp(Fx(30, 0), Fx(85, 0), spiked)

\* lines 102-116
sim_temp(room, hour, d) ==
    LET mean == base_temp(hour) + DictGet(room_temp_bias, room, 0)
        drawn == mean + d.temp_dev
        raised == drawn + Added(d.up)
        lowered == raised - Added(d.down)
    IN  clamp(Fx(17, 0), Fx(29, 0), lowered)

\* lines 118-124: the bright draw, when taken, replaces whatever came before
sim_light(d) ==
    LET drawn == Fx(380, 0) + d.light_dev
        dimmed == IF Taken(d.dim) THEN Fx(180, 0) + d.dim[1] ELSE drawn
        brightened == IF Taken(d.bright) THEN Fx(480, 0) + d.bright[1] ELSE dimmed
    IN  clamp(Fx(100, 0), Fx(600, 0), brightened)

\* the four locals at line 126
Reading(room, hour, d) ==
    LET occ == sim_occ(room, hour, d)
    IN  [occ |-> occ, noise |-> sim_noise(occ, d),
         temp |-> sim_temp(room, hour, d), light |-> sim_light(d)]

\* the branches of lines 93, 98, 112, 114, 120 and 122 that were taken
Fired(d) ==
    {b \in {"surge", "spike", "up", "down", "dim", "bright"} :
        \/ b = "surge" /\ Taken(d.surge)
        \/ b = "spike" /\ Taken(d.spike)
        \/ b = "up" /\ Taken(d.up)
        \/ b = "down" /\ Taken(d.down)
        \/ b = "dim" /\ Taken(d.dim)
        \/ b = "bright" /\ Taken(d.bright)}

\* round(x, 1), lines 131-134.  Python rounds the binary float correctly, so
\* a value printed as a decimal tie (xx.x5) goes up or down depending on its
\* last bits, which fixed point does not carry: both neighbours are possible.
Round1(x) ==
    LET r == x % 1000
        lo == x - r
    IN  IF r < 500 THEN {lo}
        ELSE IF r > 500 THEN {lo + 1000}
        ELSE {lo, lo + 1000}

\* faulty variant: the state is computed from the rounded values
Payloads_state_from_rounded(room, hour, v) ==
    {[timestamp |-> hour, room |-> room, occupancy |-> o, noise |-> n,
      temperature |-> t, light |-> l, state |-> classify_room(o, n, t, l)] :
        o \in Round1(v.occ), n \in Round1(v.noise),
        t \in Round1(v.temp), l \in Round1(v.light)}

\* lines 126-136: the dicts the call can return for the locals v
Payloads(room, hour, v) ==
    {[timestamp |-> hour, room |-> room, occupancy |-> o, noise |-> n,
      temperature |-> t, light |-> l,
      state |-> classify_room(v.occ, v.noise, v.temp, v.light)] :
        o \in Round1(v.occ), n \in Round1(v.noise),
        t \in Round1(v.temp), l \in Round1(v.light)}

(***************************************************************************)
(* Specification of one call of simulate_values_for_room                   *)
(***************************************************************************)
\* deviations of the Gaussian draws: far below the range, typical, far above
OccDevs == {-Fx(200, 0), 0, Fx(200, 0)}

NoiseDevs == {-Fx(100, 0), 0, Fx(100, 0)}

\* 5.04 above the mean puts an unbiased room at 27.54, next to the warm limit
TempDevs == {-Fx(20, 0), Fx(5, 400), Fx(20, 0)}

LightDevs == {-Fx(400, 0), 0, Fx(400, 0)}

\* random.randint(20, 40) and random.randint(10, 25): the two ends
SurgeDraws == {<<>>, <<20>>, <<40>>}

SpikeDraws == {<<>>, <<10>>, <<25>>}

\* random.uniform(2, 4): the two ends
ExcursionDraws == {<<>>, <<Fx(2, 0)>>, <<Fx(4, 0)>>}

\* deviations from 180: below the range, and 239.96, next to the dim limit
DimDraws == {<<>>, <<-Fx(100, 0)>>, <<Fx(59, 9600)>>}

\* deviations from 480: typical, and above the range
BrightDraws == {<<>>, <<0>>, <<Fx(200, 0)>>}

DrawSpace ==
    [occ_dev : OccDevs, surge : SurgeDraws, noise_dev : NoiseDevs,
     spike : SpikeDraws, temp_dev : TempDevs, up : ExcursionDraws,
     down : ExcursionDraws, light_dev : LightDevs, dim : DimDraws,
     bright : BrightDraws]

\* one hour of each occupancy band; 12 is also in the warmer afternoon band
Hours == {3, 8, 12, 18}

SimulateInit ==
    /\ pc = "call"
    /\ call \in [room : RoomSet \cup {UnknownRoom}, hour : Hours]
    /\ result = Idle
    /\ ConfigAsShipped
    /\ locals = Idle /\ fired = {} /\ bookings = Idle /\ timeline = Idle
    /\ current = 0 /\ response = Idle /\ grouped_bookings = Idle
    /\ room_idx = 0 /\ published = Idle

SimulateCall ==
    /\ pc = "call"
    /\ \E d \in DrawSpace :
          /\ locals' = Reading(call.room, call.hour, d)
          /\ fired' = Fired(d)
          /\ result' \in Payloads(call.room, call.hour, locals')
    /\ pc' = "return"
    /\ UNCHANGED <<call, T_START, T_END, SLOT_MINUTES, bookings, timeline,
                   current, response, grouped_bookings, room_idx, published>>

SimulateNext == SimulateCall

SimulateSpec == SimulateInit /\ [][SimulateNext]_vars

(***************************************************************************)
(* build_timeline (lines 141-161)                                          *)
(*                                                                         *)
(* A booking is a record [eid, from_date, to_date].  An ISO-8601 date is   *)
(* the record of its wall-clock reading (minutes since midnight of DATE)   *)
(* and its UTC offset.  An eid is the record of its JSON type and of the   *)
(* text str() gives for it.                                                *)
(***************************************************************************)
\* datetime.fromisoformat(s).replace(tzinfo=None), lines 151-152: the wall
\* clock reading is kept and the offset is dropped without conversion
naive(iso) == iso.wall

\* faulty variant: only the first booking of the list is tested
slot_booked_first_only(bks, slot_start, slot_end) ==
    /\ Len(bks) >= 1
    /\ overlaps(slot_start, slot_end,
                naive(bks[1].from_date), naive(bks[1].to_date))

\* lines 149-156: the for loop with its break
slot_booked(bks, slot_start, slot_end) ==
    \E i \in 1..Len(bks) :
        overlaps(slot_start, slot_end,
                 naive(bks[i].from_date), naive(bks[i].to_date))

\* faulty variant: the loop also runs when current has reached T_END
loop_test_inclusive(cur) == cur <= T_END

\* line 145
loop_test(cur) == cur < T_END

\* lines 146-159: one iteration of the while loop
loop_body(bks, cur, tl) ==
    LET slot_start == cur
        slot_end == cur + SLOT_MINUTES
        booked == slot_booked(bks, slot_start, slot_end)
    IN  [timeline |-> Append(tl, IF booked THEN "booked" ELSE "free"),
         current |-> slot_end]

RECURSIVE run_loop(_, _, _)
\* lines 145-161: the while loop run to its end
run_loop(bks, cur, tl) ==
    IF loop_test(cur)
    THEN LET n == loop_body(bks, cur, tl)
         IN  run_loop(bks, n.current, n.timeline)
    ELSE tl

\* lines 141-161
build_timeline(bks) == run_loop(bks, T_START, <<>>)

(***************************************************************************)
(* Specification of one call of build_timeline, one loop iteration a step  *)
(***************************************************************************)
\* largest number of reservations in the list given to build_timeline
MaxReservations == 2

\* <<T_START, T_END, SLOT_MINUTES>>: as shipped; a one-hour window; a slot
\* width that does not divide the window; an empty window
Configs == {<<HM(9, 0), HM(21, 0), 30>>, <<HM(9, 0), HM(10, 0), 30>>,
            <<HM(9, 0), HM(10, 0), 25>>, <<HM(9, 0), HM(9, 0), 30>>}

\* 08:45, 09:15, 09:45, 10:15
ReservationTimes == {HM(8, 45), HM(9, 15), HM(9, 45), HM(10, 15)}

Iso(wall, offset) == [wall |-> wall, offset |-> offset]

\* the JSON number whose digits are text
Eid(text) == [json_type |-> "number", text |-> text]

\* every pair of times, so also empty (from = to) and reversed intervals
Reservations ==
    {[eid |-> Eid(ROOMS[1]), from_date |-> Iso(a, 0), to_date |-> Iso(b, 0)] :
        a \in ReservationTimes, b \in ReservationTimes}

SeqsUpTo(S, n) == UNION {[1..k -> S] : k \in 0..n}

TimelineInit ==
    /\ pc = "loop"
    /\ \E cfg \in Configs :
          /\ T_START = cfg[1]
          /\ T_END = cfg[2]
          /\ SLOT_MINUTES = cfg[3]
    /\ bookings \in SeqsUpTo(Reservations, MaxReservations)
    /\ timeline = <<>>
    /\ current = T_START
    /\ result = Idle
    /\ call = Idle /\ locals = Idle /\ fired = {} /\ response = Idle
    /\ grouped_bookings = Idle /\ room_idx = 0 /\ published = Idle

TimelineStep ==
    /\ pc = "loop"
    /\ loop_test(current)
    /\ LET n == loop_body(bookings, current, timeline)
       IN  /\ timeline' = n.timeline
           /\ current' = n.current
    /\ UNCHANGED <<pc, call, result, locals, fired, T_START, T_END,
                   SLOT_MINUTES, bookings, response, grouped_bookings,
                   room_idx, published>>

TimelineReturn ==
    /\ pc = "loop"
    /\ ~loop_test(current)
    /\ result' = timeline
    /\ pc' = "return"
    /\ UNCHANGED <<call, locals, fired, T_START, T_END, SLOT_MINUTES,
                   bookings, timeline, current, response, grouped_bookings,
                   room_idx, published>>

TimelineNext == TimelineStep \/ TimelineReturn

\* the interpreter keeps executing the loop: a call is never abandoned
TimelineSpec ==
    TimelineInit /\ [][TimelineNext]_vars /\ WF_vars(TimelineNext)

(***************************************************************************)
(* fetch_bookings (lines 166-189)                                          *)
(*                                                                         *)
(* A response is [outcome, data]: outcome "raised" when requests.get       *)
(* raises, "not_json" when r.json() raises, "json" when data is the parsed *)
(* body, a dict whose keys are among "ok" and "bookings".                  *)
(***************************************************************************)
\* str(b["eid"]), line 185
str(eid) == eid.text

EmptyDict == [k \in {} |-> <<>>]

\* faulty variant: a booking of a room outside the catalog is filed under ROOMS[1]
group_one_unfiltered(grouped, b) ==
    LET eid == IF str(b.eid) \in DOMAIN grouped THEN str(b.eid) ELSE ROOMS[1]
    IN  [grouped EXCEPT ![eid] = Append(@, b)]

\* lines 185-187: one iteration of the for loop
group_one(grouped, b) ==
    LET eid == str(b.eid)
    IN  IF eid \in DOMAIN grouped
        THEN [grouped EXCEPT ![eid] = Append(@, b)]
        ELSE grouped

RECURSIVE group_from(_, _, _)
\* lines 184-187: the for loop from its i-th iteration on
group_from(all_bookings, i, grouped) ==
    IF i > Len(all_bookings) THEN grouped
    ELSE group_from(all_bookings, i + 1, group_one(grouped, all_bookings[i]))

Raise == [raised |-> TRUE, value |-> EmptyDict]

Return(v) == [raised |-> FALSE, value |-> v]

\* faulty variant: the ok indicator is read but not acted upon
fetch_bookings_ok_ignored(resp) ==
    IF resp.outcome # "json" THEN Raise
    ELSE IF "ok" \notin DOMAIN resp.data THEN Raise
    ELSE IF "bookings" \notin DOMAIN resp.data THEN Raise
    ELSE Return(group_from(resp.data["bookings"], 1,
                           [room_id \in RoomSet |-> <<>>]))

\* lines 166-189: what the call does with the response resp
fetch_bookings(resp) ==
    IF resp.outcome # "json" THEN Raise                    \* lines 173, 174
    ELSE IF "ok" \notin DOMAIN resp.data THEN Raise        \* line 176, KeyError
    ELSE IF ~resp.data["ok"] THEN Return(EmptyDict)        \* lines 176-178
    ELSE IF "bookings" \notin DOMAIN resp.data THEN Raise  \* line 180, KeyError
    ELSE Return(group_from(resp.data["bookings"], 1,
                           [room_id \in RoomSet |-> <<>>]))

(***************************************************************************)
(* main (lines 194-231) and the run block (lines 236-240)                  *)
(***************************************************************************)
\* largest number of bookings in a fetched response
MaxBookings == 2

\* 09:15-09:45 at +00:00, and 20:40-21:30 at +01:00
FetchedIntervals == {<<Iso(HM(9, 15), 0), Iso(HM(9, 45), 0)>>,
                     <<Iso(HM(20, 40), 60), Iso(HM(21, 30), 60)>>}

FetchedBookings ==
    {[eid |-> Eid(r), from_date |-> iv[1], to_date |-> iv[2]] :
        r \in RoomSet \cup {UnknownRoom}, iv \in FetchedIntervals}

BookingLists == SeqsUpTo(FetchedBookings, MaxBookings)

\* the parsed bodies: with or without "ok", with or without "bookings"; a
\* body that reports an error carries at most one booking
Bodies ==
    {EmptyDict}
    \cup {"ok" :> ok : ok \in BOOLEAN}
    \cup {"bookings" :> bl : bl \in BookingLists}
    \cup {"ok" :> TRUE @@ "bookings" :> bl : bl \in BookingLists}
    \cup {"ok" :> FALSE @@ "bookings" :> bl : bl \in SeqsUpTo(FetchedBookings, 1)}

Responses ==
    {[outcome |-> o, data |-> EmptyDict] : o \in {"raised", "not_json"}}
    \cup {[outcome |-> "json", data |-> body] : body \in Bodies}

\* the random draws of the status messages of the polling loop: a quiet
\* reading, and one where every branch fires
OrchestratorDraws ==
    {[occ_dev |-> 0, surge |-> <<>>, noise_dev |-> 0, spike |-> <<>>,
      temp_dev |-> Fx(5, 400), up |-> <<>>, down |-> <<>>, light_dev |-> 0,
      dim |-> <<>>, bright |-> <<>>],
     [occ_dev |-> Fx(200, 0), surge |-> <<40>>, noise_dev |-> Fx(100, 0),
      spike |-> <<25>>, temp_dev |-> Fx(20, 0), up |-> <<Fx(4, 0)>>,
      down |-> <<Fx(2, 0)>>, light_dev |-> 0, dim |-> <<Fx(59, 9600)>>,
      bright |-> <<Fx(200, 0)>>]}

\* datetime.now().hour while the loop runs
OrchestratorHours == {14}

NoResponse == [outcome |-> "none", data |-> EmptyDict]

Message(room, kind, payload) ==
    [topic |-> <<MQTT_BASE, room, kind>>, payload |-> payload]

\* the state when the while loop of line 204 is first entered
Init ==
    /\ pc = "fetch"
    /\ ConfigAsShipped
    /\ response = NoResponse
    /\ grouped_bookings = EmptyDict
    /\ room_idx = 0
    /\ published = <<>>
    /\ bookings = <<>> /\ timeline = <<>> /\ current = 0
    /\ call = Idle /\ result = Idle /\ locals = Idle /\ fired = {}

\* line 205, fetch_bookings raises: nothing in main catches it, and the run
\* block catches KeyboardInterrupt only, so the process ends with a traceback
FetchRaises ==
    /\ pc = "fetch"
    /\ \E resp \in Responses :
          /\ fetch_bookings(resp).raised
          /\ response' = resp
    /\ pc' = "crashed"
    /\ UNCHANGED <<call, result, locals, fired, T_START, T_END, SLOT_MINUTES,
                   bookings, timeline, current, grouped_bookings, room_idx,
                   published>>

\* lines 205-210, fetch_bookings returns: the for loop starts
FetchReturns ==
    /\ pc = "fetch"
    /\ \E resp \in Responses :
          /\ ~fetch_bookings(resp).raised
          /\ response' = resp
          /\ grouped_bookings' = fetch_bookings(resp).value
    /\ room_idx' = 1
    /\ pc' = "timeline"
    /\ UNCHANGED <<call, result, locals, fired, T_START, T_END, SLOT_MINUTES,
                   bookings, timeline, current, published>>

\* lines 213-219
PublishTimeline ==
    /\ pc = "timeline"
    /\ LET room == ROOMS[room_idx]
       IN  /\ bookings' = DictGet(grouped_bookings, room, <<>>)
           /\ timeline' = build_timeline(bookings')
           /\ published' = Append(published,
                  Message(room, "timeline",
                          [room |-> room, timeline |-> timeline']))
    /\ pc' = "status"
    /\ UNCHANGED <<call, result, locals, fired, T_START, T_END, SLOT_MINUTES,
                   current, response, grouped_bookings, room_idx>>

\* lines 222-229, and the for loop's step to the next room or to line 231
PublishStatus ==
    /\ pc = "status"
    /\ LET room == ROOMS[room_idx]
       IN  \E d \in OrchestratorDraws, hour \in OrchestratorHours :
              /\ locals' = Reading(room, hour, d)
              /\ fired' = Fired(d)
              /\ \E msg \in Payloads(room, hour, locals') :
                    /\ result' = msg
                    /\ published' = Append(published,
                                           Message(room, "status", msg))
    /\ IF room_idx < Len(ROOMS)
       THEN room_idx' = room_idx + 1 /\ pc' = "timeline"
       ELSE room_idx' = room_idx /\ pc' = "sleep"
    /\ UNCHANGED <<call, T_START, T_END, SLOT_MINUTES, bookings, timeline,
                   current, response, grouped_bookings>>

\* line 231, then back to line 204.  The next iteration assigns
\* grouped_bookings, bookings, timeline and msg before it reads them, so
\* their old values are dropped here; published starts the next cycle empty.
Sleep ==
    /\ pc = "sleep"
    /\ pc' = "fetch"
    /\ response' = NoResponse
    /\ grouped_bookings' = EmptyDict
    /\ room_idx' = 0
    /\ published' = <<>>
    /\ bookings' = <<>> /\ timeline' = <<>>
    /\ result' = Idle /\ locals' = Idle /\ fired' = {}
    /\ UNCHANGED <<call, T_START, T_END, SLOT_MINUTES, current>>

\* lines 237-240: Ctrl-C at any point of the loop ends the program
Interrupt ==
    /\ pc \in {"fetch", "timeline", "status", "sleep"}
    /\ pc' = "stopped"
    /\ UNCHANGED <<call, result, locals, fired, T_START, T_END, SLOT_MINUTES,
                   bookings, timeline, current, response, grouped_bookings,
                   room_idx, published>>

Next ==
    \/ FetchRaises
    \/ FetchReturns
    \/ PublishTimeline
    \/ PublishStatus
    \/ Sleep
    \/ Interrupt

Spec == Init /\ [][Next]_vars

(***************************************************************************)
(* Properties of overlaps, under OverlapsSpec                              *)
(***************************************************************************)
Returned == pc = "return"

\* C8 as stated: an interval of zero width never overlaps anything, be it
\* the slot (slot_start = slot_end) or the reservation (book_start = book_end).
C8_ZeroWidthNeverOverlaps ==
    Returned =>
        /\ call.slot_start = call.slot_end => ~result
        /\ call.book_start = call.book_end => ~result

\* C8 as amended: an interval of zero width [t, t) overlaps the other
\* interval exactly when t lies strictly inside it, so it overlaps nothing
\* only when t is at or outside the other interval's ends.
C8_ZeroWidthOverlapsIffInside ==
    Returned =>
        /\ call.slot_start = call.slot_end =>
              (result <=> (call.book_start < call.slot_start
                           /\ call.slot_start < call.book_end))
        /\ call.book_start = call.book_end =>
              (result <=> (call.slot_start < call.book_start
                           /\ call.book_start < call.slot_end))

\* a zero-width slot strictly inside a reservation: overlaps returns True
C8_Witness ==
    /\ Returned
    /\ call.slot_start = call.slot_end
    /\ call.book_start < call.slot_start
    /\ call.slot_start < call.book_end
    /\ result

\* C9: overlaps(a, b, c, d) is a < d and c < b; it is symmetric in its two
\* intervals; and two proper intervals that touch (b = c) do not overlap.
C9_OverlapsContract ==
    Returned =>
        LET a == call.slot_start
            b == call.slot_end
            c == call.book_start
            d == call.book_end
        IN  /\ result <=> (a < d /\ c < b)
            /\ result <=> overlaps(c, d, a, b)
            /\ (b = c /\ a < b /\ c < d) => ~result

\* two proper intervals that touch, reported as not overlapping
C9_Witness ==
    /\ Returned
    /\ call.slot_end = call.book_start
    /\ call.slot_start < call.slot_end
    /\ call.book_start < call.book_end
    /\ ~result

(***************************************************************************)
(* Properties of classify_room, under ClassifySpec                         *)
(***************************************************************************)
Labels == <<"overloaded", "warm", "cold", "dim", "noisy", "busy", "perfect",
            "good", "calm", "neutral">>

\* whether rule k of the decision list matches the reading r
RuleMatches(k, r) ==
    CASE k = 1 -> r.occ >= Fx(90, 0) /\ r.noise >= Fx(60, 0)
      [] k = 2 -> r.temp > Fx(27, 5000)
      [] k = 3 -> r.temp < Fx(18, 5000)
      [] k = 4 -> r.light < Fx(240, 0)
      [] k = 5 -> r.noise >= Fx(60, 0) /\ r.occ < Fx(90, 0)
      [] k = 6 -> r.occ \in Fx(70, 0)..Fx(90, 0) /\ r.noise < Fx(60, 0)
      [] k = 7 -> /\ r.occ < Fx(30, 0) /\ r.noise < Fx(40, 0)
                  /\ r.temp \in Fx(21, 0)..Fx(24, 0) /\ r.light >= Fx(360, 0)
      [] k = 8 -> /\ r.occ < Fx(50, 0) /\ r.noise < Fx(45, 0)
                  /\ r.temp \in Fx(20, 0)..Fx(26, 0)
      [] k = 9 -> /\ r.noise < Fx(44, 0) /\ r.occ < Fx(60, 0)
                  /\ r.temp \in Fx(19, 0)..Fx(26, 0)
      [] OTHER -> TRUE

FirstMatch(r) ==
    CHOOSE k \in 1..10 : RuleMatches(k, r) /\ \A j \in 1..(k - 1) : ~RuleMatches(j, r)

\* C1: classify_room returns one of the ten labels, the one of the first
\* rule of the ordered list that matches; (90, 60, 22, 400) is overloaded
\* and (20, 30, 22, 400) is perfect.
C1_FirstMatchingRule ==
    Returned =>
        /\ \E k \in 1..10 : result = Labels[k]
        /\ result = Labels[FirstMatch(call)]
        /\ call = [occ |-> Fx(90, 0), noise |-> Fx(60, 0), temp |-> Fx(22, 0),
                   light |-> Fx(400, 0)] => result = "overloaded"
        /\ call = [occ |-> Fx(20, 0), noise |-> Fx(30, 0), temp |-> Fx(22, 0),
                   light |-> Fx(400, 0)] => result = "perfect"

\* a warm and dim room with neither rule 1 nor rule 3: rules 2 and 4 both
\* match and the earlier one gives the label
C1_Witness ==
    /\ Returned
    /\ RuleMatches(2, call) /\ RuleMatches(4, call)
    /\ ~RuleMatches(1, call)
    /\ result = "warm"

(***************************************************************************)
(* Properties of simulate_values_for_room, under SimulateSpec              *)
(***************************************************************************)
InRange(x, lo, hi) == lo <= x /\ x <= hi

\* C2: whatever the random draws and whichever branches fire, the returned
\* reading has 0 <= occupancy <= 100, 30 <= noise <= 85,
\* 17 <= temperature <= 29 and 100 <= light <= 600.
C2_ReadingInRange ==
    Returned =>
        /\ InRange(result.occupancy, Fx(0, 0), Fx(100, 0))
        /\ InRange(result.noise, Fx(30, 0), Fx(85, 0))
        /\ InRange(result.temperature, Fx(17, 0), Fx(29, 0))
        /\ InRange(result.light, Fx(100, 0), Fx(600, 0))

\* all six random branches fired in one call and the occupancy sits at its
\* upper limit after the surge
C2_Witness ==
    /\ Returned
    /\ fired = {"surge", "spike", "up", "down", "dim", "bright"}
    /\ result.occupancy = Fx(100, 0)
    /\ result.light = Fx(600, 0)

\* C10 as stated: the state of the payload is classify_room of the four
\* values the payload carries, that is the values rounded to one decimal.
C10_StateOfPublishedValues ==
    Returned =>
        result.state = classify_room(result.occupancy, result.noise,
                                     result.temperature, result.light)

Abs(x) == IF x >= 0 THEN x ELSE -x

\* C10 as amended: the state of the payload is classify_room of the four
\* clamped values before rounding, and each value the payload carries is a
\* multiple of 0.1 at most 0.05 away from the value that was classified.
C10_StateOfValuesBeforeRounding ==
    Returned =>
        /\ result.state = classify_room(locals.occ, locals.noise,
                                        locals.temp, locals.light)
        /\ \A pair \in {<<result.occupancy, locals.occ>>,
                        <<result.noise, locals.noise>>,
                        <<result.temperature, locals.temp>>,
                        <<result.light, locals.light>>} :
              pair[1] % 1000 = 0 /\ Abs(pair[1] - pair[2]) <= 500

\* 27.54 degrees is classified warm and published as 27.5, which is not warm
C10_Witness ==
    /\ Returned
    /\ locals.temp = Fx(27, 5400)
    /\ result.temperature = Fx(27, 5000)
    /\ result.state = "warm"
    /\ classify_room(result.occupancy, result.noise, result.temperature,
                     result.light) # "warm"

(***************************************************************************)
(* Properties of build_timeline, under TimelineSpec                        *)
(***************************************************************************)
\* the i-th slot of the window is [SlotStart(i), SlotStart(i + 1))
SlotStart(i) == T_START + (i - 1) * SLOT_MINUTES

\* section 4.1 of the specification: slotStart < bookEnd and bookStart < slotEnd
OverlapsSlot(b, i) ==
    /\ SlotStart(i) < b.to_date.wall
    /\ b.from_date.wall < SlotStart(i + 1)

\* some minute lies in the i-th slot and in the reservation
SharesMinute(b, i) ==
    \E m \in SlotStart(i)..(SlotStart(i + 1) - 1) :
        b.from_date.wall <= m /\ m < b.to_date.wall

\* the labels a list of reservations must give to the first n slots
ExpectedLabels(bks, n) ==
    [i \in 1..n |->
        IF \E k \in 1..Len(bks) : OverlapsSlot(bks[k], i)
        THEN "booked" ELSE "free"]

Reservation(from, to) ==
    [eid |-> Eid(ROOMS[1]), from_date |-> Iso(from, 0), to_date |-> Iso(to, 0)]

OneHourWindow == T_START = HM(9, 0) /\ T_END = HM(10, 0) /\ SLOT_MINUTES = 30

\* the part of C3 that holds of every list: the i-th label is "booked"
\* exactly when some reservation overlaps the i-th slot; for reservations
\* with from < to that is exactly when one shares a minute with the slot
LabelsFollowOverlap ==
    /\ timeline = ExpectedLabels(bookings, Len(timeline))
    /\ (\A k \in 1..Len(bookings) :
            bookings[k].from_date.wall < bookings[k].to_date.wall)
          => \A i \in 1..Len(timeline) :
                timeline[i] = "booked"
                    <=> \E k \in 1..Len(bookings) : SharesMinute(bookings[k], i)
    /\ Returned => result = timeline

\* C3 as stated: the i-th label is "booked" exactly when some reservation of
\* the list overlaps the i-th slot, whatever the order of the list and
\* wherever the reservations lie; with the window 09:00-10:00 in slots of 30
\* minutes, 09:15-09:45 gives booked, free and 09:45-10:15 gives free, booked.
C3_BookedIffOverlap_AsStated ==
    /\ LabelsFollowOverlap
    /\ Returned =>
          /\ (OneHourWindow /\ bookings = <<Reservation(HM(9, 15), HM(9, 45))>>)
                => result = <<"booked", "free">>
          /\ (OneHourWindow /\ bookings = <<Reservation(HM(9, 45), HM(10, 15))>>)
                => result = <<"free", "booked">>

\* C3 as amended: the same, except that 09:15-09:45 gives booked, booked,
\* since the reservation overlaps 09:00-09:30 and 09:30-10:00 alike.
C3_BookedIffOverlap ==
    /\ LabelsFollowOverlap
    /\ Returned =>
          /\ (OneHourWindow /\ bookings = <<Reservation(HM(9, 15), HM(9, 45))>>)
                => result = <<"booked", "booked">>
          /\ (OneHourWindow /\ bookings = <<Reservation(HM(9, 45), HM(10, 15))>>)
                => result = <<"free", "booked">>

\* the reservation 09:15-09:45 in the window 09:00-10:00: both slots booked
C3_Witness ==
    /\ Returned
    /\ OneHourWindow
    /\ bookings = <<Reservation(HM(9, 15), HM(9, 45))>>
    /\ result = <<"booked", "booked">>

CeilDiv(a, b) == (a + b - 1) \div b

\* C6: every call of build_timeline returns, and returns
\* ceil((T_END - T_START) / SLOT_MINUTES) labels whatever the reservations
\* are: 24 for 09:00-21:00 in slots of 30 minutes; when the slot width does
\* not divide the window, the last label is of a slot that starts before
\* T_END and ends after it.
C6_TerminatesWithCeilLabels ==
    /\ <>Returned
    /\ [](Returned =>
            /\ Len(result) = CeilDiv(T_END - T_START, SLOT_MINUTES)
            /\ ConfigAsShipped => Len(result) = 24
            /\ (T_END - T_START) % SLOT_MINUTES # 0 =>
                  /\ Len(result) >= 1
                  /\ SlotStart(Len(result)) < T_END
                  /\ SlotStart(Len(result) + 1) > T_END)

\* slots of 25 minutes in a window of 60: three labels, the third for
\* 09:50-10:15
C6_Witness ==
    /\ Returned
    /\ (T_END - T_START) % SLOT_MINUTES # 0
    /\ Len(result) = 3
    /\ SlotStart(3) < T_END
    /\ SlotStart(4) > T_END

(***************************************************************************)
(* Properties of the polling loop, under Spec                              *)
(***************************************************************************)
IsJson(resp) == resp.outcome = "json"

Has(resp, key) == IsJson(resp) /\ key \in DOMAIN resp.data

\* the response carries an ok indicator, and it is false
NotOk(resp) == Has(resp, "ok") /\ ~resp.data["ok"]

\* the request raised, or the body is not JSON, or a field that is read is
\* missing
FetchFailed(resp) ==
    \/ resp.outcome \in {"raised", "not_json"}
    \/ IsJson(resp) /\ ~Has(resp, "ok")
    \/ Has(resp, "ok") /\ resp.data["ok"] /\ ~Has(resp, "bookings")

NSlots == CeilDiv(T_END - T_START, SLOT_MINUTES)

AllFree == [i \in 1..NSlots |-> "free"]

PublishedOn(room, kind) ==
    {i \in 1..Len(published) : published[i].topic = <<MQTT_BASE, room, kind>>}

\* every room's timeline of this cycle is all free, and every room has its
\* status message
CycleWithoutReservations ==
    \A r \in RoomSet :
        /\ \E i \in PublishedOn(r, "timeline") :
              published[i].payload.timeline = AllFree
        /\ PublishedOn(r, "status") # {}

\* C4: after a response whose ok indicator is false, every timeline
\* published in the cycle is all free, and by the end of the cycle every
\* room has its timeline and its status message.
C4_NotOkGivesFreeTimelines ==
    NotOk(response) =>
        /\ \A i \in 1..Len(published) :
              published[i].topic[3] = "timeline"
                  => published[i].payload.timeline = AllFree
        /\ pc = "sleep" => CycleWithoutReservations

\* a cycle completed after a not-ok response that carried a booking of a
\* catalog room
C4_Witness ==
    /\ pc = "sleep"
    /\ NotOk(response)
    /\ Has(response, "bookings")
    /\ \E k \in 1..Len(response.data["bookings"]) :
          str(response.data["bookings"][k].eid) \in RoomSet
    /\ Len(published) = 2 * Len(ROOMS)

\* C5 as stated: when the request raises or the response is malformed, the
\* loop goes on, every room's timeline is published all free and every
\* room's status is published.
C5_FetchFailureRecovered ==
    FetchFailed(response) =>
        /\ pc # "crashed"
        /\ pc = "sleep" => CycleWithoutReservations

\* the bookings of the response that a room's timeline may depend on: those
\* whose eid is the room's id, when the response is ok
BookingsOf(resp, room) ==
    IF Has(resp, "ok") /\ resp.data["ok"] /\ Has(resp, "bookings")
    THEN SelectSeq(resp.data["bookings"], LAMBDA b : str(b.eid) = room)
    ELSE <<>>

\* C7: the messages of a cycle are, room by room in catalog order, one on
\* <base>/<room>/timeline then one on <base>/<room>/status, and nothing
\* else; a room's timeline is decided by the fetched bookings of that room
\* alone, so bookings of unknown rooms and of other rooms change nothing.
C7_TwoMessagesPerCatalogRoom ==
    /\ Len(published) <= 2 * Len(ROOMS)
    /\ pc = "timeline" => Len(published) = 2 * (room_idx - 1)
    /\ pc = "status" => Len(published) = 2 * room_idx - 1
    /\ pc = "sleep" => Len(published) = 2 * Len(ROOMS)
    /\ \A i \in 1..Len(published) :
          LET room == ROOMS[(i + 1) \div 2]
              m == published[i]
          IN  /\ m.payload.room = room
              /\ i % 2 = 1 =>
                    /\ m.topic = <<MQTT_BASE, room, "timeline">>
                    /\ m.payload.timeline
                          = ExpectedLabels(BookingsOf(response, room), NSlots)
              /\ i % 2 = 0 => m.topic = <<MQTT_BASE, room, "status">>

\* a completed cycle whose response booked an unknown room and ROOMS[2]:
\* only the timeline of ROOMS[2] has a booked slot
C7_Witness ==
    /\ pc = "sleep"
    /\ Has(response, "bookings")
    /\ \E k \in 1..Len(response.data["bookings"]) :
          str(response.data["bookings"][k].eid) = UnknownRoom
    /\ \A r \in RoomSet :
          \A i \in PublishedOn(r, "timeline") :
              (published[i].payload.timeline # AllFree) <=> (r = ROOMS[2])

====
